---- MODULE Spec2Model ----
(***************************************************************************)
(* Model of barycentric/coordinates.py: lattice, polycorners, bary2cart,   *)
(* project_pointline and baryedges.                                        *)
(*                                                                         *)
(* Numbers.  The program computes in IEEE doubles.  The model computes in  *)
(* exact arithmetic over the numbers (a + b*sqrt(r))/q, a, b integers, r   *)
(* a square-free radicand, q a positive integer, which contain every value *)
(* the program's formulas produce for the polygons of PolyDims, plus one   *)
(* special value NaN for 0/0, which is what numpy yields (with a warning,  *)
(* never an exception) for a division of zero by zero.  Rounding error of  *)
(* the doubles is not modelled.                                            *)
(***************************************************************************)
EXTENDS Integers, Sequences, FiniteSets, TLC

(***************************************************************************)
(* Bounds of the model.                                                    *)
(***************************************************************************)
\* largest ncorners given to lattice
MaxCorners == 4
\* largest total of the integer weights of one input coordinate
MaxW == 3
\* largest number of rows of a batch given to bary2cart
MaxRows == 2

\* corner counts whose regular polygon has corners in the modelled numbers
PolyDims == {2, 3, 4, 6}
\* corner counts of the rows of a batch
BatchDims == {2, 3}
\* cartesian ordinates of the points given to project_pointline, in halves
GridHalves == {0, 1, 2}

(***************************************************************************)
(* Exact numbers.                                                          *)
(***************************************************************************)
Abs(n) == IF n < 0 THEN -n ELSE n

RECURSIVE GCD(_, _)
GCD(m, n) == IF n = 0 THEN m ELSE GCD(n, m % n)

NaN == [a |-> 0, b |-> 0, r |-> 1, q |-> 0]

IsNaN(x) == x.q = 0

\* the canonical record of (a + b*sqrt(r))/q, q # 0
Canon(a, b, r, q) ==
    LET g == GCD(GCD(Abs(a), Abs(b)), Abs(q))
        s == IF q < 0 THEN -1 ELSE 1
    IN [a |-> (s * a) \div g, b |-> (s * b) \div g,
        r |-> IF b = 0 THEN 1 ELSE r, q |-> (s * q) \div g]

Rat(n, q) == Canon(n, 0, 1, q)

Zero == Rat(0, 1)
One == Rat(1, 1)
Half == Rat(1, 2)

\* the radicand of a result of x and y
Rad(x, y) == CASE x.b = 0 -> y.r
               [] y.b = 0 -> x.r
               [] x.r = y.r -> x.r

Add(x, y) ==
    IF IsNaN(x) \/ IsNaN(y) THEN NaN
    ELSE Canon(x.a * y.q + y.a * x.q, x.b * y.q + y.b * x.q, Rad(x, y), x.q * y.q)

Neg(x) == IF IsNaN(x) THEN NaN ELSE [x EXCEPT !.a = -x.a, !.b = -x.b]

Sub(x, y) == Add(x, Neg(y))

Mul(x, y) ==
    IF IsNaN(x) \/ IsNaN(y) THEN NaN
    ELSE LET r == Rad(x, y)
         IN Canon(x.a * y.a + r * x.b * y.b, x.a * y.b + x.b * y.a, r, x.q * y.q)

\* x / y; 0/0 is NaN.  A non-zero x over zero (IEEE: an infinity) does not
\* arise: every divisor of the program is zero only together with its dividend.
Div(x, y) ==
    IF IsNaN(x) \/ IsNaN(y) THEN NaN
    ELSE LET den == y.a * y.a - y.r * y.b * y.b
         IN IF den = 0 THEN NaN
            ELSE Mul(x, Canon(y.q * y.a, -(y.q * y.b), y.r, den))

Sgn(n) == IF n > 0 THEN 1 ELSE IF n < 0 THEN -1 ELSE 0

\* the sign of a number that is not NaN
Sign(x) ==
    CASE x.b = 0 -> Sgn(x.a)
      [] x.a = 0 -> Sgn(x.b)
      [] Sgn(x.a) = Sgn(x.b) -> Sgn(x.a)
      [] OTHER -> IF x.a * x.a > x.r * x.b * x.b THEN Sgn(x.a) ELSE Sgn(x.b)

\* x <= y; every comparison with NaN is false
Leq(x, y) == ~IsNaN(x) /\ ~IsNaN(y) /\ Sign(Sub(y, x)) >= 0

\* the largest m >= best with m*m dividing n, searched from m upwards
RECURSIVE SquarePart(_, _, _)
SquarePart(n, m, best) ==
    IF m * m > n THEN best
    ELSE SquarePart(n, m + 1, IF n % (m * m) = 0 THEN m ELSE best)

\* the square root of a rational x >= 0: with a = ma^2 * sa and q = mq^2 * sq,
\* sqrt(a/q) = ma * sqrt(sa * sq) / (mq * sq).  The root of a negative is NaN.
Sqrt(x) ==
    CASE IsNaN(x) -> NaN
      [] x.b = 0 /\ x.a < 0 -> NaN
      [] x.b = 0 /\ x.a = 0 -> Zero
      [] x.b = 0 /\ x.a > 0 ->
            LET ma == SquarePart(x.a, 1, 1)
                mq == SquarePart(x.q, 1, 1)
                sa == x.a \div (ma * ma)
                sq == x.q \div (mq * mq)
            IN IF sa * sq = 1 THEN Rat(ma, mq)
               ELSE Canon(0, ma, sa * sq, mq * sq)

(***************************************************************************)
(* Vectors: functions from 0..n-1 (the program's zero-based indices).      *)
(***************************************************************************)
Dim(v) == Cardinality(DOMAIN v)

RECURSIVE SumTo(_, _)
\* v[0] + ... + v[n-1], added in index order
SumTo(v, n) == IF n = 0 THEN Zero ELSE Add(SumTo(v, n - 1), v[n - 1])

\* np.sum of a vector
Sum(v) == SumTo(v, Dim(v))

VAdd(u, v) == [k \in DOMAIN u |-> Add(u[k], v[k])]
VSub(u, v) == [k \in DOMAIN u |-> Sub(u[k], v[k])]
VScale(u, x) == [k \in DOMAIN u |-> Mul(u[k], x)]
VDiv(u, x) == [k \in DOMAIN u |-> Div(u[k], x)]

\* np.dot of two vectors
Dot(u, v) == Sum([k \in DOMAIN u |-> Mul(u[k], v[k])])

\* np.linalg.norm(v, 2)
Norm2(v) == Sqrt(Dot(v, v))

(***************************************************************************)
(* polycorners                                                             *)
(***************************************************************************)
Sqrt3Half == Canon(0, 1, 3, 2)

\* cos of k twelfths of a full turn
Cos12(k) ==
    CASE k % 12 = 0 -> One
      [] k % 12 \in {1, 11} -> Sqrt3Half
      [] k % 12 \in {2, 10} -> Half
      [] k % 12 \in {3, 9} -> Zero
      [] k % 12 \in {4, 8} -> Neg(Half)
      [] k % 12 \in {5, 7} -> Neg(Sqrt3Half)
      [] k % 12 = 6 -> Neg(One)

\* sin(t) = cos(t - pi/2)
Sin12(k) == Cos12(k + 9)

\* angle = (float(i) / ncorners) * (np.pi * 2) + (np.pi / 2), in twelfths of
\* a turn; an integer for the corner counts of PolyDims
Angle12(i, n) == (12 * i) \div n + 3

polycorners(n) ==
    [i \in 0..(n - 1) |->
        [c \in 0..1 |->
            IF c = 0 THEN Add(Half, Mul(Cos12(Angle12(i, n)), Half))
            ELSE Add(Half, Mul(Sin12(Angle12(i, n)), Half))]]

(***************************************************************************)
(* project_pointline                                                       *)
(***************************************************************************)
\* a + (np.dot(p - a, b - a) / np.dot(b - a, b - a)) * (b - a)
project_pointline(pp, aa, bb) ==
    VAdd(aa, VScale(VSub(bb, aa),
                    Div(Dot(VSub(pp, aa), VSub(bb, aa)),
                        Dot(VSub(bb, aa), VSub(bb, aa)))))

(***************************************************************************)
(* bary2cart                                                               *)
(***************************************************************************)
\* variant: divides by the number of weights instead of their sum
NormalizedByCount(w) == VDiv(w, Rat(Dim(w), 1))

\* b / np.sum(b): the coefficients applied to the corners
Normalized(w) == VDiv(w, Sum(w))

\* np.sum(b / np.sum(b) * corners.T, axis=1)
Bary2CartPoint(w, cs) ==
    [c \in 0..1 |-> Sum([k \in DOMAIN w |-> Mul(Normalized(w)[k], cs[k][c])])]

(***************************************************************************)
(* lattice: the values appended by the construction steps                  *)
(***************************************************************************)
\* list(np.identity(ncorners))
Identity(n) ==
    [k \in 1..n |-> [m \in 0..(n - 1) |-> IF m = k - 1 THEN One ELSE Zero]]

\* variant: one part too many
CenterOffByOne(n) == [m \in 0..(n - 1) |-> Div(One, Rat(n + 1, 1))]

\* np.array([1. / ncorners] * ncorners)
Center(n) == [m \in 0..(n - 1) |-> Div(One, Rat(n, 1))]

\* (coords[i] + coords[j] + center) / 3
CornerCornerCenter(ci, cj, ctr) == VDiv(VAdd(VAdd(ci, cj), ctr), Rat(3, 1))

\* variant: averages two points as if they were three
CornerCenterThird(ci, ctr) == VDiv(VAdd(ci, ctr), Rat(3, 1))

\* (coords[i] + center) / 2
CornerCenter(ci, ctr) == VDiv(VAdd(ci, ctr), Rat(2, 1))

\* variant: averages two points as if they were three
CornerCornerThird(ci, cj) == VDiv(VAdd(ci, cj), Rat(3, 1))

\* (coords[i] + coords[j]) / 2
CornerCorner(ci, cj) == VDiv(VAdd(ci, cj), Rat(2, 1))

RECURSIVE SetToSeq(_)
\* list(S): the elements of a set in some order
SetToSeq(S) ==
    IF S = {} THEN <<>>
    ELSE LET x == CHOOSE y \in S : TRUE
         IN <<x>> \o SetToSeq(S \ {x})

\* variant: no deduplication
NotUnique(cs) == cs

\* np.array(list(set(tuple(c) for c in coords)))
Unique(cs) == SetToSeq({cs[k] : k \in DOMAIN cs})

(***************************************************************************)
(* baryedges: the pieces of one loop iteration                             *)
(***************************************************************************)
\* np.arange(d)
Arange(d) == [k \in 0..(d - 1) |-> k]

\* variant: rolls the other way
RollBack1(v) == [k \in DOMAIN v |-> v[(k + 1) % Dim(v)]]

\* np.roll(v, 1)
Roll1(v) == [k \in DOMAIN v |-> v[(k - 1) % Dim(v)]]

\* [np.linalg.norm(corners[a] - proj, 2) for a in [i1, i2]]
Distances(cs, proj, k1, k2) ==
    [n \in 0..1 |-> Norm2(VSub(cs[IF n = 0 THEN k1 ELSE k2], proj))]

\* variant: the distances themselves
NearDistances(ds) == ds

\* np.sum(distances) - distances
FarDistances(ds) == [n \in DOMAIN ds |-> Sub(Sum(ds), ds[n])]

\* e[i1, (i1, i2)] = vals, applied to row i1
EdgeRow(row, k1, k2, vals) == [row EXCEPT ![k1] = vals[0], ![k2] = vals[1]]

\* np.zeros((d, d))
Zeros(d) == [k \in 0..(d - 1) |-> [m \in 0..(d - 1) |-> Zero]]

(***************************************************************************)
(* Inputs                                                                  *)
(***************************************************************************)
RECURSIVE NatTotal(_, _)
NatTotal(w, n) == IF n = 0 THEN 0 ELSE NatTotal(w, n - 1) + w[n - 1]

\* the coordinates of d non-negative integer weights of total at most MaxW,
\* as arrays of floats
Weights(d) ==
    {[k \in 0..(d - 1) |-> Rat(w[k], 1)] :
        w \in {v \in [0..(d - 1) -> 0..MaxW] : NatTotal(v, d) <= MaxW}}

\* the rows of a batch: the coordinates of d weights that are each 0 or 1
Rows(d) == {w \in Weights(d) : \A k \in DOMAIN w : w[k] \in {Zero, One}}

\* the batches of 1..MaxRows rows of d weights
Batches(d) == UNION {[1..n -> Rows(d)] : n \in 1..MaxRows}

\* the cartesian points on the grid of halves
GridPoints ==
    {[c \in 0..1 |-> Rat(xy[c + 1], 2)] : xy \in GridHalves \X GridHalves}

\* an argument or local the running function does not have
None == <<>>

(***************************************************************************)
(* State                                                                   *)
(***************************************************************************)
VARIABLES
    fn,        \* the function that was called
    pc,        \* its position
    ncorners,  \* lattice: argument
    sides,     \* lattice: argument
    coords,    \* lattice: the list coords
    center,    \* lattice: center
    i, j,      \* loop indices (lattice, bary2cart's comprehension)
    bary,      \* bary2cart, baryedges: the barycentric argument
    batch,     \* bary2cart: len(bary.shape) > 1
    corners,   \* bary2cart, baryedges: corners
    cart,      \* baryedges: cart
    p, a, b,   \* project_pointline: arguments
    e,         \* baryedges: e
    i1,        \* baryedges: loop index
    ret,       \* the value returned, or the list being built for it
    exc        \* the exception raised; the functions have no raise

vars == <<fn, pc, ncorners, sides, coords, center, i, j, bary, batch, corners,
          cart, p, a, b, e, i1, ret, exc>>

latticeVars == <<ncorners, sides, coords, center>>
convertVars == <<bary, batch, corners>>
projectVars == <<p, a, b>>
edgeVars == <<cart, e, i1>>

NoLattice == ncorners = 0 /\ sides = FALSE /\ coords = None /\ center = None
NoConvert == bary = None /\ batch = FALSE /\ corners = None
NoProject == p = None /\ a = None /\ b = None
NoEdges == cart = None /\ e = None /\ i1 = 0

InitLattice ==
    /\ fn = "lattice" /\ pc = "corners"
    /\ ncorners \in 2..MaxCorners /\ sides \in BOOLEAN
    /\ coords = None /\ center = None
    /\ i = 0 /\ j = 0 /\ ret = None /\ exc = "none"
    /\ NoConvert /\ NoProject /\ NoEdges

InitBary2Cart ==
    /\ fn = "bary2cart" /\ pc = "corners"
    /\ \/ batch = FALSE /\ \E d \in PolyDims : bary \in Weights(d)
       \/ batch = TRUE /\ \E d \in BatchDims : bary \in Batches(d)
    /\ corners = None
    /\ i = 0 /\ j = 0 /\ ret = None /\ exc = "none"
    /\ NoLattice /\ NoProject /\ NoEdges

InitProject ==
    /\ fn = "project_pointline" /\ pc = "call"
    /\ p \in GridPoints /\ a \in GridPoints /\ b \in GridPoints
    /\ i = 0 /\ j = 0 /\ ret = None /\ exc = "none"
    /\ NoLattice /\ NoConvert /\ NoEdges

InitBaryedges ==
    /\ fn = "baryedges" /\ pc = "setup"
    /\ \E d \in PolyDims : bary \in Weights(d)
    /\ batch = FALSE /\ corners = None
    /\ cart = None /\ e = None /\ i1 = 0
    /\ i = 0 /\ j = 0 /\ ret = None /\ exc = "none"
    /\ NoLattice /\ NoProject

Init == InitLattice \/ InitBary2Cart \/ InitProject \/ InitBaryedges

(***************************************************************************)
(* lattice                                                                 *)
(***************************************************************************)
\* 1. Corners.
LatticeCorners ==
    /\ fn = "lattice" /\ pc = "corners"
    /\ coords' = Identity(ncorners)
    /\ pc' = "center"
    /\ UNCHANGED <<fn, ncorners, sides, center, i, j, ret, exc,
                   convertVars, projectVars, edgeVars>>

\* 2. Center.
LatticeCenter ==
    /\ fn = "lattice" /\ pc = "center"
    /\ center' = Center(ncorners)
    /\ coords' = Append(coords, center')
    /\ pc' = "corner_corner_center" /\ i' = 0 /\ j' = 1
    /\ UNCHANGED <<fn, ncorners, sides, ret, exc,
                   convertVars, projectVars, edgeVars>>

\* 3. the body of the inner loop
LatticeCornerCornerCenter ==
    /\ fn = "lattice" /\ pc = "corner_corner_center"
    /\ i < ncorners /\ j < ncorners
    /\ coords' = Append(coords,
                        CornerCornerCenter(coords[i + 1], coords[j + 1], center))
    /\ j' = j + 1
    /\ UNCHANGED <<fn, pc, ncorners, sides, center, i, ret, exc,
                   convertVars, projectVars, edgeVars>>

\* 3. the inner loop is exhausted: next i
LatticeCornerCornerCenterNext ==
    /\ fn = "lattice" /\ pc = "corner_corner_center"
    /\ i < ncorners /\ j >= ncorners
    /\ i' = i + 1 /\ j' = i + 2
    /\ UNCHANGED <<fn, pc, ncorners, sides, coords, center, ret, exc,
                   convertVars, projectVars, edgeVars>>

\* 3. the outer loop is exhausted
LatticeCornerCornerCenterEnd ==
    /\ fn = "lattice" /\ pc = "corner_corner_center"
    /\ i >= ncorners
    /\ pc' = "corner_center" /\ i' = 0 /\ j' = 0
    /\ UNCHANGED <<fn, ncorners, sides, coords, center, ret, exc,
                   convertVars, projectVars, edgeVars>>

\* 4. the body of the loop
LatticeCornerCenter ==
    /\ fn = "lattice" /\ pc = "corner_center"
    /\ i < ncorners
    /\ coords' = Append(coords, CornerCenter(coords[i + 1], center))
    /\ i' = i + 1
    /\ UNCHANGED <<fn, pc, ncorners, sides, center, j, ret, exc,
                   convertVars, projectVars, edgeVars>>

\* 4. the loop is exhausted; 5. if sides
LatticeCornerCenterEnd ==
    /\ fn = "lattice" /\ pc = "corner_center"
    /\ i >= ncorners
    /\ pc' = IF sides THEN "sides" ELSE "unique"
    /\ i' = 0 /\ j' = IF sides THEN 1 ELSE 0
    /\ UNCHANGED <<fn, ncorners, sides, coords, center, ret, exc,
                   convertVars, projectVars, edgeVars>>

\* 5. the body of the inner loop
LatticeSides ==
    /\ fn = "lattice" /\ pc = "sides"
    /\ i < ncorners /\ j < ncorners
    /\ coords' = Append(coords, CornerCorner(coords[i + 1], coords[j + 1]))
    /\ j' = j + 1
    /\ UNCHANGED <<fn, pc, ncorners, sides, center, i, ret, exc,
                   convertVars, projectVars, edgeVars>>

\* 5. the inner loop is exhausted: next i
LatticeSidesNext ==
    /\ fn = "lattice" /\ pc = "sides"
    /\ i < ncorners /\ j >= ncorners
    /\ i' = i + 1 /\ j' = i + 2
    /\ UNCHANGED <<fn, pc, ncorners, sides, coords, center, ret, exc,
                   convertVars, projectVars, edgeVars>>

\* 5. the outer loop is exhausted
LatticeSidesEnd ==
    /\ fn = "lattice" /\ pc = "sides"
    /\ i >= ncorners
    /\ pc' = "unique" /\ i' = 0 /\ j' = 0
    /\ UNCHANGED <<fn, ncorners, sides, coords, center, ret, exc,
                   convertVars, projectVars, edgeVars>>

\* 5. Return unique coordinates
LatticeReturn ==
    /\ fn = "lattice" /\ pc = "unique"
    /\ ret' = Unique(coords)
    /\ pc' = "done"
    /\ UNCHANGED <<fn, ncorners, sides, coords, center, i, j, exc,
                   convertVars, projectVars, edgeVars>>

(***************************************************************************)
(* bary2cart                                                               *)
(***************************************************************************)
\* if corners == None: corners = polycorners(bary.shape[-1])
Bary2CartCorners ==
    /\ fn = "bary2cart" /\ pc = "corners"
    /\ corners' = polycorners(IF batch THEN Dim(bary[1]) ELSE Dim(bary))
    /\ pc' = IF batch THEN "rows" ELSE "single"
    /\ ret' = IF batch THEN <<>> ELSE ret
    /\ UNCHANGED <<fn, i, j, bary, batch, exc,
                   latticeVars, projectVars, edgeVars>>

\* one element of the comprehension over the rows of bary
Bary2CartRow ==
    /\ fn = "bary2cart" /\ pc = "rows"
    /\ i < Len(bary)
    /\ ret' = Append(ret, Bary2CartPoint(bary[i + 1], corners))
    /\ i' = i + 1
    /\ UNCHANGED <<fn, pc, j, exc, convertVars,
                   latticeVars, projectVars, edgeVars>>

\* return np.array([...])
Bary2CartRowsReturn ==
    /\ fn = "bary2cart" /\ pc = "rows"
    /\ i >= Len(bary)
    /\ pc' = "done"
    /\ UNCHANGED <<fn, i, j, ret, exc, convertVars,
                   latticeVars, projectVars, edgeVars>>

\* return np.sum(bary / np.sum(bary) * corners.T, axis=1)
Bary2CartSingle ==
    /\ fn = "bary2cart" /\ pc = "single"
    /\ ret' = Bary2CartPoint(bary, corners)
    /\ pc' = "done"
    /\ UNCHANGED <<fn, i, j, exc, convertVars,
                   latticeVars, projectVars, edgeVars>>

(***************************************************************************)
(* project_pointline                                                       *)
(***************************************************************************)
ProjectPointline ==
    /\ fn = "project_pointline" /\ pc = "call"
    /\ ret' = project_pointline(p, a, b)
    /\ pc' = "done"
    /\ UNCHANGED <<fn, i, j, exc, latticeVars, convertVars, projectVars,
                   edgeVars>>

(***************************************************************************)
(* baryedges                                                               *)
(***************************************************************************)
\* d, corners, cart, e
BaryedgesSetup ==
    /\ fn = "baryedges" /\ pc = "setup"
    /\ corners' = polycorners(Dim(bary))
    /\ cart' = Bary2CartPoint(bary, corners')
    /\ e' = Zeros(Dim(bary))
    /\ i1' = 0
    /\ pc' = "edges"
    /\ UNCHANGED <<fn, i, j, bary, batch, ret, exc, latticeVars, projectVars>>

\* one iteration of the loop over izip(np.arange(d), np.roll(np.arange(d), 1))
BaryedgesEdge ==
    /\ fn = "baryedges" /\ pc = "edges"
    /\ i1 < Dim(bary)
    /\ LET i2 == Roll1(Arange(Dim(bary)))[i1]
           proj == project_pointline(cart, corners[i1], corners[i2])
           distances == Distances(corners, proj, i1, i2)
       IN e' = [e EXCEPT ![i1] = EdgeRow(e[i1], i1, i2, FarDistances(distances))]
    /\ i1' = i1 + 1
    /\ UNCHANGED <<fn, pc, i, j, cart, ret, exc, convertVars,
                   latticeVars, projectVars>>

\* return e
BaryedgesReturn ==
    /\ fn = "baryedges" /\ pc = "edges"
    /\ i1 >= Dim(bary)
    /\ ret' = e
    /\ pc' = "done"
    /\ UNCHANGED <<fn, i, j, exc, convertVars, latticeVars, projectVars,
                   edgeVars>>

Next ==
    \/ LatticeCorners
    \/ LatticeCenter
    \/ LatticeCornerCornerCenter
    \/ LatticeCornerCornerCenterNext
    \/ LatticeCornerCornerCenterEnd
    \/ LatticeCornerCenter
    \/ LatticeCornerCenterEnd
    \/ LatticeSides
    \/ LatticeSidesNext
    \/ LatticeSidesEnd
    \/ LatticeReturn
    \/ Bary2CartCorners
    \/ Bary2CartRow
    \/ Bary2CartRowsReturn
    \/ Bary2CartSingle
    \/ ProjectPointline
    \/ BaryedgesSetup
    \/ BaryedgesEdge
    \/ BaryedgesReturn

Spec == Init /\ [][Next]_vars

(***************************************************************************)
(* Properties                                                              *)
(***************************************************************************)
\* the coordinate (ns[1]/q, ..., ns[n]/q)
Coord(ns, q) == [k \in 0..(Len(ns) - 1) |-> Rat(ns[k + 1], q)]

Elements(seq) == {seq[k] : k \in DOMAIN seq}

Returned(f) == fn = f /\ pc = "done"

Corners3 == {Coord(<<1, 0, 0>>, 1), Coord(<<0, 1, 0>>, 1), Coord(<<0, 0, 1>>, 1)}
Centroid3 == Coord(<<1, 1, 1>>, 3)
\* (corner_i + corner_j + centroid) / 3, i < j
PairCentroidAverages3 ==
    {Coord(<<4, 4, 1>>, 9), Coord(<<4, 1, 4>>, 9), Coord(<<1, 4, 4>>, 9)}
\* (corner_i + centroid) / 2
CornerCentroidMidpoints3 ==
    {Coord(<<4, 1, 1>>, 6), Coord(<<1, 4, 1>>, 6), Coord(<<1, 1, 4>>, 6)}
\* (corner_i + corner_j) / 2, i < j
Midpoints3 ==
    {Coord(<<1, 1, 0>>, 2), Coord(<<1, 0, 1>>, 2), Coord(<<0, 1, 1>>, 2)}

Seven3 == Corners3 \cup {Centroid3} \cup PairCentroidAverages3
Ten3 == Seven3 \cup CornerCentroidMidpoints3

\* C1 as stated: lattice(3, sides=False) returns exactly the 7 coordinates
\* corners, centroid and corner-pair-centroid averages.
C1_Stated ==
    (Returned("lattice") /\ ncorners = 3 /\ ~sides)
        => (Len(ret) = 7 /\ Elements(ret) = Seven3)

\* C1 amended: lattice(3, sides=False) returns exactly 10 unique coordinates:
\* the 3 corners, the centroid, the 3 corner-pair-centroid averages and the 3
\* corner-centroid midpoints (corner_i + centroid)/2 of step 4, and nothing else.
C1_Amended ==
    (Returned("lattice") /\ ncorners = 3 /\ ~sides)
        => (Len(ret) = 10 /\ Elements(ret) = Ten3)

C1_Witness ==
    /\ Returned("lattice") /\ ncorners = 3 /\ ~sides
    /\ CornerCentroidMidpoints3 \subseteq Elements(ret)

\* C2 as stated: lattice(3, sides=True) holds the 3 pairwise midpoints besides
\* the elements of lattice(3, sides=False), 10 unique coordinates in total.
C2_Stated ==
    (Returned("lattice") /\ ncorners = 3 /\ sides)
        => /\ Midpoints3 \subseteq Elements(ret)
           /\ Ten3 \subseteq Elements(ret)
           /\ Len(ret) = 10

\* C2 amended: lattice(3, sides=True) holds the 3 pairwise midpoints besides
\* the (10) elements of lattice(3, sides=False), no midpoint coincides with
\* another element, and the result has 13 unique coordinates in total.
C2_Amended ==
    (Returned("lattice") /\ ncorners = 3 /\ sides)
        => /\ Midpoints3 \subseteq Elements(ret)
           /\ Elements(ret) \ Midpoints3 = Ten3
           /\ Midpoints3 \cap Ten3 = {}
           /\ Len(ret) = 13

C2_Witness ==
    /\ Returned("lattice") /\ ncorners = 3 /\ sides
    /\ Coord(<<1, 1, 0>>, 2) \in Elements(ret)

\* C3: every coordinate of the result of lattice(d, sides) has length d, has
\* no negative weight and has weights that sum to exactly 1.
C3_Normalized ==
    Returned("lattice")
        => \A k \in DOMAIN ret :
              /\ DOMAIN ret[k] = 0..(ncorners - 1)
              /\ \A m \in DOMAIN ret[k] : Leq(Zero, ret[k][m])
              /\ Sum(ret[k]) = One

C3_Witness ==
    Returned("lattice") /\ ncorners = MaxCorners /\ sides /\ Len(ret) > ncorners

HalfHalf == Coord(<<1, 1>>, 2)

\* C9: the result of lattice holds no two equal coordinates and exactly the
\* coordinates that were generated; at d = 2 the centroid, the
\* corner-pair-centroid average and the corner-pair midpoint are all (1/2, 1/2)
\* and the result holds it once.
C9_NoDuplicates ==
    Returned("lattice")
        => /\ \A m, n \in DOMAIN ret : m # n => ret[m] # ret[n]
           /\ Elements(ret) = Elements(coords)
           /\ ncorners = 2 =>
                /\ coords[3] = HalfHalf /\ coords[4] = HalfHalf
                /\ sides => coords[7] = HalfHalf
                /\ Cardinality({k \in DOMAIN ret : ret[k] = HalfHalf}) = 1

C9_Witness ==
    /\ Returned("lattice") /\ ncorners = 2 /\ sides
    /\ Len(coords) = 7 /\ Len(ret) = 5

\* C4 as stated: bary2cart of a coordinate whose weights sum to 0 is rejected
\* with InvalidArgument and returns no cartesian point.
C4_Stated ==
    (Returned("bary2cart") /\ ~batch /\ Sum(bary) = Zero)
        => (exc = "InvalidArgument" /\ ret = None)

\* C5 as stated: project_pointline with a = b fails with DegenerateSegment
\* for every p and returns no value computed with a zero denominator.
C5_Stated ==
    (Returned("project_pointline") /\ a = b)
        => (exc = "DegenerateSegment" /\ ret = None)

\* C6 as stated: a batch call of bary2cart with an invalid (zero-sum) row
\* reports the error and returns no output; any other batch call returns one
\* cartesian point per row, in the order of the rows.
C6_Stated ==
    (Returned("bary2cart") /\ batch)
        => IF \E k \in DOMAIN bary : Sum(bary[k]) = Zero
           THEN exc = "InvalidArgument" /\ ret = None
           ELSE /\ Len(ret) = Len(bary)
                /\ \A k \in DOMAIN bary :
                      ret[k] = Bary2CartPoint(bary[k], polycorners(Dim(bary[k])))

\* z component of u x v
Cross(u, v) == Sub(Mul(u[0], v[1]), Mul(u[1], v[0]))

\* pt is in the convex hull of the corners cs of a convex polygon listed
\* counter-clockwise: on the inner side of every edge and, for the polygon of
\* two corners, between them
InHull(pt, cs) ==
    /\ \A k \in DOMAIN cs :
          Leq(Zero, Cross(VSub(cs[(k + 1) % Dim(cs)], cs[k]), VSub(pt, cs[k])))
    /\ \A c \in 0..1 :
          /\ \E k \in DOMAIN cs : Leq(cs[k][c], pt[c])
          /\ \E k \in DOMAIN cs : Leq(pt[c], cs[k][c])

\* the point pt is the combination of the corners of polycorners(len(w)) with
\* coefficients w_i / sum(w) that are each in [0, 1] and sum to 1, and it lies
\* in the convex hull of the corners
ConvexCombination(w, pt) ==
    LET cs == polycorners(Dim(w))
        co == [k \in DOMAIN w |-> Div(w[k], Sum(w))]
    IN /\ \A k \in DOMAIN w : Leq(Zero, co[k]) /\ Leq(co[k], One)
       /\ Sum(co) = One
       /\ \A c \in 0..1 : pt[c] = Sum([k \in DOMAIN w |-> Mul(co[k], cs[k][c])])
       /\ InHull(pt, cs)

\* C7: for every coordinate w of non-negative weights with sum > 0 (alone or
\* as a row of a batch), bary2cart(w) is a convex combination of the corners
\* of polycorners(len(w)) and lies in their convex hull.
C7_ConvexCombination ==
    Returned("bary2cart")
        => IF batch
           THEN \A k \in DOMAIN bary :
                   Sum(bary[k]) # Zero => ConvexCombination(bary[k], ret[k])
           ELSE Sum(bary) # Zero => ConvexCombination(bary, ret)

C7_Witness ==
    /\ Returned("bary2cart") /\ ~batch /\ Dim(bary) = 3
    /\ bary = Coord(<<1, 1, 1>>, 1)
    /\ ret = Coord(<<1, 1>>, 2)

\* the unit corner coordinate e_k of dimension d
Unit(k, d) == [m \in 0..(d - 1) |-> IF m = k THEN One ELSE Zero]

\* C8: baryedges of a unit corner coordinate e_k yields, in rows k and
\* (k+1) mod d, a row whose only non-zero entry is in column k.
C8_CornerRows ==
    Returned("baryedges")
        => \A k \in DOMAIN bary :
              bary = Unit(k, Dim(bary))
                 => \A row \in {k, (k + 1) % Dim(bary)} :
                       /\ ret[row][k] # Zero
                       /\ ~IsNaN(ret[row][k])
                       /\ \A m \in DOMAIN bary : m # k => ret[row][m] = Zero

C8_Witness ==
    /\ Returned("baryedges") /\ bary = Unit(0, 3)
    /\ ret[0][0] = Canon(0, 1, 3, 2) /\ ret[1][0] = Canon(0, 1, 3, 2)

\* pr is the orthogonal projection of pt onto the line through aa and bb
IsProjection(pr, pt, aa, bb) ==
    /\ Cross(VSub(pr, aa), VSub(bb, aa)) = Zero
    /\ Dot(VSub(pt, pr), VSub(bb, aa)) = Zero

\* the sum of the squares of the ordinates of v
SquaredLength(v) == Add(Mul(v[0], v[0]), Mul(v[1], v[1]))

\* x is the euclidean distance of the points u and v
IsDistance(x, u, v) == Leq(Zero, x) /\ Mul(x, x) = SquaredLength(VSub(u, v))

====
